---- MODULE Spec2Model ----
(***************************************************************************)
(* Model of the update engine of lumen-mod-manager                         *)
(* (src/services/update-manager.js): updateMod, updateMultipleMods,        *)
(* createBackup, downloadWithProgress, updateModRegistry and               *)
(* restoreFromBackup, over an abstract file system.                        *)
(*                                                                         *)
(* File contents are abstracted to the version whose bytes they hold       *)
(* (0 = no such file, Partial = an incompletely written file).  A failing  *)
(* file-system call throws and leaves its destination as it was; the one   *)
(* exception is the download's write stream, which has already created     *)
(* its file when it fails.  A temporary file left behind by a failed       *)
(* invocation is never read again (createWriteStream truncates it), so     *)
(* only the temporary file of the invocation in progress is kept.          *)
(* Successive backups are taken at successive values of Date.now(), except *)
(* in SpecClock, which starts after the wall clock was set back.           *)
(*                                                                         *)
(* checkForUpdates and getInstalledMods are modelled by SpecCheck, on      *)
(* profiles drawn from a small set and with a catalog whose answer for a   *)
(* project does not change once given; compareVersions is modelled on      *)
(* version strings as sequences of characters and exercised by             *)
(* SpecCompare and, on three strings, by SpecTransitive.  SpecOverlap      *)
(* interleaves checks with updates; SpecHandlers interleaves updates with  *)
(* the 'download-mod' and 'delete-mod' handlers of the main process, the   *)
(* registry being read and written in separate steps; SpecDownload adds    *)
(* responses whose content-length is less than the body.                   *)
(***************************************************************************)
EXTENDS Integers, Sequences, FiniteSets, TLC

\* ---------------------------------------------------------------- bounds
MaxVersion == 3        \* catalog versions are 1..MaxVersion
MaxBatch == 2          \* longest input of updateMultipleMods
MaxTime == 2           \* backups are taken at times 1..MaxTime
TotalChunks == 2       \* 'data' events of one complete download stream

Files == {"a.jar", "b.jar", "c.jar"}
Versions == 1..MaxVersion
Absent == 0
Partial == -1
\* no updateMod invocation has returned
NoRet == [success |-> FALSE, error |-> ""]
\* latestVersion: null of an UpdateReport
NoVersion == [version_number |-> 0, filename |-> ""]

\* error.message of the failure of each step
NoUpdateMsg == "No update available"
BackupMsg == "backup failed"
DownloadMsg == "download failed"
SwapMsg == "swap failed"
CommitMsg == "commit failed"
RestoreMsg == "restore failed"

VARIABLES
  dir,            \* installation directory: file name -> content
  registry,       \* mod-registry.json: file name -> version (0 = no key)
  backupDir,      \* does <profile>/backups/mods exist
  backups,        \* set of [file, ts, content]: backup <file>.backup.<ts>
  temp,           \* content of tempPath, the file this invocation downloads to
  now,            \* Date.now() at the next backup
  isUpdating,     \* this.isUpdating
  mods,           \* argument of the running updateMultipleMods call
  i,              \* 1-based loop index of updateMultipleMods
  results,        \* local results of updateMultipleMods
  pc,             \* position of the running call
  events,         \* events emitted since the last result was recorded
  err,            \* the error caught at updateMod's catch
  ret,            \* outcome of the updateMod invocation that returned
  downloadedSize, \* downloadWithProgress: downloadedSize
  totalSize,      \* downloadWithProgress: totalSize (0 = NaN, unknown)
  failStep,       \* history: the step of this invocation that failed
  restoreState,   \* history: "none", "skipped", "ok" or "failed"
  started,        \* history: this invocation passed its precondition
  dir0, reg0, backups0, \* history: disk state when this invocation started
  cpc,            \* position of the running checkForUpdates call
  installedMods,  \* checkForUpdates: installedMods
  ci,             \* checkForUpdates: the loop index i, 1-based
  updateResults,  \* checkForUpdates: updateResults
  catalog,        \* what api.getLatestVersion answers for each file's project
  returned,       \* history: the report sequences the finished checks returned
  va, vb,         \* arguments of a compareVersions call
  cmp,            \* its result, or NoCmp before the call
  vc,             \* a third version string, for calls that follow
  loaded,         \* updateModRegistry: the registry it has read
  hpc,            \* position of the running 'download-mod' handler
  hreg            \* updateDownloadedModRegistry: the registry it has read

vars == <<dir, registry, backupDir, backups, temp, now, isUpdating, mods, i,
          results, pc, events, err, ret, downloadedSize, totalSize,
          failStep, restoreState, started, dir0, reg0, backups0,
          cpc, installedMods, ci, updateResults, catalog, returned,
          va, vb, cmp, vc, loaded, hpc, hreg>>

disk == <<dir, registry, backupDir, backups, temp, now>>
batch == <<isUpdating, mods, results>>
dl == <<downloadedSize, totalSize>>
hist0 == <<started, dir0, reg0, backups0>>
chk == <<cpc, installedMods, ci, updateResults, catalog, returned>>
cmpv == <<va, vb, cmp, vc>>
\* the registry as read by a call that has not yet written it back
rw == <<loaded, hpc, hreg>>
\* what updateMod and updateMultipleMods do not touch
aux == <<chk, cmpv, rw>>

\* ------------------------------------------------------------- helpers
Emit(e) == events' = Append(events, e)

\* mod.name of the artifact stored as file f
NameOf(f) == f

\* the file downloadWithProgress is asked for: files.find(f => f.primary)
\* || files[0] of mod.latestVersion
DownloadFile(mod) == mod.latestVersion.filename

\* an UpdateReport the UI can pass on: a tracked installed file, with either
\* no latest version or one that checkForUpdates found strictly newer
Reports ==
  { [fileName |-> f, name |-> NameOf(f), currentVersion |-> registry[f],
     latestVersion |-> lv] :
      f \in {g \in Files : dir[g] # Absent /\ registry[g] # Absent},
      lv \in {NoVersion} \cup [version_number : Versions, filename : Files] }

ValidReport(r) ==
  r.latestVersion = NoVersion \/ r.latestVersion.version_number > r.currentVersion

Distinct(s) == \A j, k \in 1..Len(s) : j # k => s[j].fileName # s[k].fileName

Inputs ==
  { s \in UNION { [1..n -> {r \in Reports : ValidReport(r)}] : n \in 1..MaxBatch } :
      Distinct(s) }

Mod == mods[i]

\* the profile at start-up: a.jar at version 1 and b.jar at version 2 are
\* installed and tracked, c.jar is a free name
Installed0 == [f \in Files |-> CASE f = "a.jar" -> 1 [] f = "b.jar" -> 2 [] OTHER -> Absent]

\* no checkForUpdates call is running and none has returned
CheckIdle ==
  /\ cpc = "idle"
  /\ installedMods = <<>>
  /\ ci = 1
  /\ updateResults = <<>>
  /\ returned = <<>>

\* no compareVersions call has been made
NoCmp == 2
CompareIdle ==
  /\ va = <<>>
  /\ vb = <<>>
  /\ vc = <<>>
  /\ cmp = NoCmp

StartupProfile ==
  /\ dir = Installed0
  /\ registry = Installed0
  /\ now = 1

\* no backup has been taken in the profile
NoBackups ==
  /\ backupDir = FALSE
  /\ backups = {}

\* no registry has been read
NoRegistry == <<>>

\* no updateMultipleMods call and no 'download-mod' handler is running
UpdateIdle ==
  /\ loaded = NoRegistry
  /\ hpc = "idle"
  /\ hreg = NoRegistry
  /\ temp = Absent
  /\ isUpdating = FALSE
  /\ mods = <<>>
  /\ i = 1
  /\ results = <<>>
  /\ pc = "idle"
  /\ events = <<>>
  /\ err = ""
  /\ ret = NoRet
  /\ downloadedSize = 0
  /\ totalSize = 0
  /\ failStep = "none"
  /\ restoreState = "none"
  /\ started = FALSE
  /\ dir0 = dir
  /\ reg0 = registry
  /\ backups0 = backups

Init ==
  /\ StartupProfile
  /\ NoBackups
  /\ UpdateIdle
  /\ CheckIdle
  /\ catalog = <<>>
  /\ CompareIdle


\* ------------------------------------------------- updateMultipleMods
\* ipcMain.handle('update-mods') calls updateMultipleMods(mods, profile)
StartBatch ==
  /\ pc = "idle"
  /\ \E s \in Inputs : mods' = s
  /\ isUpdating' = TRUE
  /\ results' = <<>>
  /\ i' = 1
  /\ events' = <<>>
  /\ pc' = "loop"
  /\ UNCHANGED <<aux, disk, err, ret, dl, failStep, restoreState, hist0>>

\* mutant of BatchProgress: the position is the 0-based loop index
BatchProgressZeroBased ==
  [type |-> "batchUpdateProgress", current |-> i - 1, total |-> Len(mods),
   modName |-> Mod.name]

BatchProgress ==
  [type |-> "batchUpdateProgress", current |-> i, total |-> Len(mods),
   modName |-> Mod.name]

\* the locals and the history of an updateMod invocation, set when it is
\* entered and again when its result has been recorded
EnterUpdate ==
  /\ dir0' = dir
  /\ reg0' = registry
  /\ backups0' = backups
  /\ failStep' = "none"
  /\ restoreState' = "none"
  /\ err' = ""

\* mutant of UpdateNoUpdate: the precondition is tested after updateStarted
\* is emitted, inside the try
UpdateNoUpdateInsideTry ==
  /\ pc = "loop"
  /\ i <= Len(mods)
  /\ Mod.latestVersion = NoVersion
  /\ events' = <<BatchProgress, [type |-> "updateStarted", mod |-> Mod.name],
                 [type |-> "updateFailed", mod |-> Mod.name, error |-> NoUpdateMsg]>>
  /\ EnterUpdate
  /\ started' = FALSE
  /\ ret' = [success |-> FALSE, error |-> NoUpdateMsg]
  /\ pc' = "returned"
  /\ UNCHANGED <<aux, disk, batch, i, dl>>

\* loop body up to updateMod's precondition, which throws
UpdateNoUpdate ==
  /\ pc = "loop"
  /\ i <= Len(mods)
  /\ Mod.latestVersion = NoVersion
  /\ events' = <<BatchProgress>>
  /\ EnterUpdate
  /\ started' = FALSE
  /\ ret' = [success |-> FALSE, error |-> NoUpdateMsg]
  /\ pc' = "returned"
  /\ UNCHANGED <<aux, disk, batch, i, dl>>

\* loop body up to updateMod's first await
UpdateStart ==
  /\ pc = "loop"
  /\ i <= Len(mods)
  /\ Mod.latestVersion # NoVersion
  /\ events' = <<BatchProgress, [type |-> "updateStarted", mod |-> Mod.name]>>
  /\ EnterUpdate
  /\ started' = TRUE
  /\ pc' = "backup"
  /\ UNCHANGED <<aux, disk, batch, i, ret, dl>>

\* mutant of Catch: the failure event is not emitted
CatchSilent(step, msg) ==
  /\ err' = msg
  /\ failStep' = step
  /\ events' = events
  /\ pc' = "restore"

\* updateMod's catch up to its await: emit updateFailed, then restore
Catch(step, msg) ==
  /\ err' = msg
  /\ failStep' = step
  /\ Emit([type |-> "updateFailed", mod |-> Mod.name, error |-> msg])
  /\ pc' = "restore"

\* --------------------------------------------------------- createBackup
BackupOf(bs, f, t) == {b \in bs : b.file = f /\ b.ts = t}

\* mutant of CreateBackupOk: the file is not copied
CreateBackupOkNoCopy ==
  /\ pc = "backup"
  /\ dir[Mod.fileName] # Absent
  /\ now <= MaxTime
  /\ now' = now + 1
  /\ backupDir' = TRUE
  /\ pc' = "download"
  /\ UNCHANGED <<aux, dir, registry, backups, temp, batch, i, events, err, ret,
                 dl, failStep, restoreState, hist0>>

CreateBackupOk ==
  /\ pc = "backup"
  /\ dir[Mod.fileName] # Absent
  /\ now <= MaxTime
  /\ now' = now + 1
  /\ backups' = (backups \ BackupOf(backups, Mod.fileName, now))
                 \cup {[file |-> Mod.fileName, ts |-> now,
                        content |-> dir[Mod.fileName]]}
  /\ backupDir' = TRUE
  /\ pc' = "download"
  /\ UNCHANGED <<aux, dir, registry, temp, batch, i, events, err, ret, dl,
                 failStep, restoreState, hist0>>

\* ensureDir throws (made = FALSE), or fs.copy throws: always when the
\* source file is missing, possibly on an I/O error otherwise
CreateBackupFail ==
  /\ pc = "backup"
  /\ \E made \in BOOLEAN :
       /\ dir[Mod.fileName] = Absent => made
       /\ backupDir' = (backupDir \/ made)
  /\ Catch("backup", BackupMsg)
  /\ UNCHANGED <<aux, dir, registry, backups, temp, now, batch, i, ret, dl,
                 restoreState, hist0>>

\* -------------------------------------------------- downloadWithProgress
\* the axios request or ensureDir(tempDir) rejects
DownloadRequestFail ==
  /\ pc = "download"
  /\ Catch("download", DownloadMsg)
  /\ UNCHANGED <<aux, disk, batch, i, ret, dl, restoreState, hist0>>

\* the response arrives, with or without a content-length header, and the
\* write stream is opened on the temporary file
DownloadBegin ==
  /\ pc = "download"
  /\ \E t \in {0, TotalChunks} : totalSize' = t
  /\ downloadedSize' = 0
  /\ temp' = Partial
  /\ pc' = "streaming"
  /\ UNCHANGED <<aux, dir, registry, backupDir, backups, now, batch, i, events,
                 err, ret, failStep, restoreState, hist0>>

\* downloadedSize and totalSize are locals of downloadWithProgress
LeaveDownload ==
  /\ downloadedSize' = 0
  /\ totalSize' = 0

\* Math.round((downloadedSize / totalSize) * 100), or 0 without a total
Progress(d, t) == IF t = 0 THEN 0 ELSE (200 * d + t) \div (2 * t)

\* mutant of DownloadData: the response stream goes on delivering chunks
\* after the write stream has failed
DownloadDataAfterFailure ==
  /\ pc \in {"streaming", "restore"}
  /\ downloadedSize < TotalChunks
  /\ downloadedSize' = downloadedSize + 1
  /\ Emit([type |-> "downloading", mod |-> Mod.name,
           progress |-> Progress(downloadedSize + 1, totalSize)])
  /\ UNCHANGED <<aux, disk, batch, i, pc, err, ret, totalSize, failStep,
                 restoreState, hist0>>

\* response.data.on('data'); the pipe pauses the response stream when the
\* write stream fails, so no chunk is delivered after that
DownloadData ==
  /\ pc = "streaming"
  /\ downloadedSize < TotalChunks
  /\ downloadedSize' = downloadedSize + 1
  /\ Emit([type |-> "downloading", mod |-> Mod.name,
           progress |-> Progress(downloadedSize + 1, totalSize)])
  /\ UNCHANGED <<aux, disk, batch, i, pc, err, ret, totalSize, failStep,
                 restoreState, hist0>>

\* writer.on('finish', resolve)
DownloadFinish ==
  /\ pc = "streaming"
  /\ downloadedSize = TotalChunks
  /\ temp' = Mod.latestVersion.version_number
  /\ LeaveDownload
  /\ pc' = "remove"
  /\ UNCHANGED <<aux, dir, registry, backupDir, backups, now, batch, i, events,
                 err, ret, failStep, restoreState, hist0>>

\* writer.on('error', reject): the temporary file stays incomplete
DownloadWriteError ==
  /\ pc = "streaming"
  /\ Catch("download", DownloadMsg)
  /\ LeaveDownload
  /\ UNCHANGED <<aux, disk, batch, i, ret, restoreState, hist0>>

\* response.data emits 'error': nothing listens, the promise never settles
DownloadStreamError ==
  /\ pc = "streaming"
  /\ pc' = "hung"
  /\ UNCHANGED <<aux, disk, batch, i, events, err, ret, dl, failStep,
                 restoreState, hist0>>

\* ------------------------------------------------------------------ swap
\* if (await fs.pathExists(mod.filePath)) await fs.remove(mod.filePath)
SwapRemove ==
  /\ pc = "remove"
  /\ dir' = [dir EXCEPT ![Mod.fileName] = Absent]
  /\ pc' = "move"
  /\ UNCHANGED <<aux, registry, backupDir, backups, temp, now, batch, i, events,
                 err, ret, dl, failStep, restoreState, hist0>>

SwapRemoveFail ==
  /\ pc = "remove"
  /\ dir[Mod.fileName] # Absent
  /\ Catch("swap", SwapMsg)
  /\ UNCHANGED <<aux, disk, batch, i, ret, dl, restoreState, hist0>>

\* mutant of SwapMoveOk: the move replaces an existing newPath
SwapMoveOkOverwrite ==
  /\ pc = "move"
  /\ dir' = [dir EXCEPT ![DownloadFile(Mod)] = temp]
  /\ temp' = Absent
  /\ pc' = "commit"
  /\ UNCHANGED <<aux, registry, backupDir, backups, now, batch, i, events, err,
                 ret, dl, failStep, restoreState, hist0>>

\* fs.move(tempPath, newPath): refuses to overwrite an existing newPath
SwapMoveOk ==
  /\ pc = "move"
  /\ dir[DownloadFile(Mod)] = Absent
  /\ dir' = [dir EXCEPT ![DownloadFile(Mod)] = temp]
  /\ temp' = Absent
  /\ pc' = "commit"
  /\ UNCHANGED <<aux, registry, backupDir, backups, now, batch, i, events, err,
                 ret, dl, failStep, restoreState, hist0>>

SwapMoveFail ==
  /\ pc = "move"
  /\ Catch("swap", SwapMsg)
  /\ UNCHANGED <<aux, disk, batch, i, ret, dl, restoreState, hist0>>

\* ------------------------------------------------------ updateModRegistry
\* mutant of updateModRegistry: the old key is not deleted
updateModRegistryKeepOld(reg, oldFileName, fileName, version) ==
  [f \in Files |-> IF f = fileName THEN version ELSE reg[f]]

\* mutant of updateModRegistry: the registry is written after the old key
\* is deleted and before the new one is set
updateModRegistryDeleteOnly(reg, oldFileName, fileName, version) ==
  [f \in Files |-> IF f = oldFileName /\ f # fileName THEN Absent ELSE reg[f]]

updateModRegistry(reg, oldFileName, fileName, version) ==
  [f \in Files |->
     IF f = fileName THEN version
     ELSE IF f = oldFileName THEN Absent
     ELSE reg[f]]

\* the commit, then updateMod's emit and return
CommitOk ==
  /\ pc = "commit"
  /\ registry' = updateModRegistry(registry, Mod.fileName, DownloadFile(Mod),
                                   Mod.latestVersion.version_number)
  /\ Emit([type |-> "updateCompleted", mod |-> Mod.name,
           oldVersion |-> Mod.currentVersion,
           newVersion |-> Mod.latestVersion.version_number])
  /\ ret' = [success |-> TRUE, oldFile |-> Mod.fileName,
             newFile |-> DownloadFile(Mod),
             newVersion |-> Mod.latestVersion.version_number]
  /\ pc' = "returned"
  /\ UNCHANGED <<aux, dir, backupDir, backups, temp, now, batch, i, err, dl,
                 failStep, restoreState, hist0>>

\* readJson or writeJson throws
CommitFail ==
  /\ pc = "commit"
  /\ Catch("commit", CommitMsg)
  /\ UNCHANGED <<aux, disk, batch, i, ret, dl, restoreState, hist0>>

\* ------------------------------------------------------ restoreFromBackup
\* backups.filter(f => f.startsWith(mod.fileName + '.backup.')); no name
\* in Files is a prefix of another, so only the file's own backups match
ModBackups(bs, f) == {b \in bs : b.file = f}

\* mutant of LatestBackup: .sort()[0], the oldest backup
OldestBackup(bs, f) ==
  CHOOSE b \in ModBackups(bs, f) : \A c \in ModBackups(bs, f) : c.ts >= b.ts

\* .sort().reverse()[0]: the greatest name, i.e. the greatest timestamp
LatestBackup(bs, f) ==
  CHOOSE b \in ModBackups(bs, f) : \A c \in ModBackups(bs, f) : c.ts <= b.ts

\* the backup directory is missing or holds no backup of the file:
\* restoreFromBackup returns and the catch rethrows the caught error
RestoreSkip ==
  /\ pc = "restore"
  /\ ~backupDir \/ ModBackups(backups, Mod.fileName) = {}
  /\ restoreState' = "skipped"
  /\ ret' = [success |-> FALSE, error |-> err]
  /\ pc' = "returned"
  /\ UNCHANGED <<aux, disk, batch, i, events, err, dl, failStep, hist0>>

\* mutant of RestoreOk: the backup that was copied back is removed
RestoreOkConsuming ==
  /\ pc = "restore"
  /\ backupDir
  /\ ModBackups(backups, Mod.fileName) # {}
  /\ dir' = [dir EXCEPT ![Mod.fileName] =
                          LatestBackup(backups, Mod.fileName).content]
  /\ backups' = backups \ {LatestBackup(backups, Mod.fileName)}
  /\ restoreState' = "ok"
  /\ ret' = [success |-> FALSE, error |-> err]
  /\ pc' = "returned"
  /\ UNCHANGED <<aux, registry, backupDir, temp, now, batch, i, events,
                 err, dl, failStep, hist0>>

RestoreOk ==
  /\ pc = "restore"
  /\ backupDir
  /\ ModBackups(backups, Mod.fileName) # {}
  /\ dir' = [dir EXCEPT ![Mod.fileName] =
                          LatestBackup(backups, Mod.fileName).content]
  /\ restoreState' = "ok"
  /\ ret' = [success |-> FALSE, error |-> err]
  /\ pc' = "returned"
  /\ UNCHANGED <<aux, registry, backupDir, backups, temp, now, batch, i, events,
                 err, dl, failStep, hist0>>

\* readdir or fs.copy throws inside the catch block: that error leaves
\* updateMod
RestoreFail ==
  /\ pc = "restore"
  /\ backupDir
  /\ restoreState' = "failed"
  /\ ret' = [success |-> FALSE, error |-> RestoreMsg]
  /\ pc' = "returned"
  /\ UNCHANGED <<aux, disk, batch, i, events, err, dl, failStep, hist0>>

\* ------------------------------------------- updateMultipleMods, the rest
\* results.push(...) in the try or in the catch of the loop body
ResultOf(m, r) ==
  IF r.success
    THEN [mod |-> m.name, success |-> TRUE, oldFile |-> r.oldFile,
          newFile |-> r.newFile, newVersion |-> r.newVersion]
    ELSE [mod |-> m.name, success |-> FALSE, error |-> r.error]

\* what Record resets besides pushing the result
RecordRest ==
  /\ pc' = "loop"
  /\ ret' = NoRet
  /\ EnterUpdate
  /\ started' = FALSE
  /\ events' = <<>>
  /\ temp' = Absent
  /\ UNCHANGED <<aux, dir, registry, backupDir, backups, now, isUpdating, mods, dl>>

\* mutant of Record: the catch of the loop body pushes nothing
RecordDropFailed ==
  /\ pc = "returned"
  /\ results' = IF ret.success THEN Append(results, ResultOf(Mod, ret)) ELSE results
  /\ i' = i + 1
  /\ RecordRest

\* mutant of Record: the catch of the loop body leaves the loop
RecordBreakOnFailure ==
  /\ pc = "returned"
  /\ results' = Append(results, ResultOf(Mod, ret))
  /\ i' = IF ret.success THEN i + 1 ELSE Len(mods) + 1
  /\ RecordRest

\* mutant of Record: the loop goes on before the result is pushed
RecordNotAwaited ==
  /\ pc = "returned"
  /\ results' = IF i < Len(mods) THEN results ELSE Append(results, ResultOf(Mod, ret))
  /\ i' = i + 1
  /\ RecordRest

Record ==
  /\ pc = "returned"
  /\ results' = Append(results, ResultOf(Mod, ret))
  /\ i' = i + 1
  /\ RecordRest

BatchFinish ==
  /\ pc = "loop"
  /\ i > Len(mods)
  /\ isUpdating' = FALSE
  /\ Emit([type |-> "batchUpdateCompleted", results |-> results])
  /\ pc' = "done"
  /\ UNCHANGED <<aux, disk, mods, results, i, err, ret, dl, failStep,
                 restoreState, hist0>>

\* updateMultipleMods returns results to the 'update-mods' handler, which
\* hands them to the renderer; the call's locals are gone
BatchReturn ==
  /\ pc = "done"
  /\ mods' = <<>>
  /\ results' = <<>>
  /\ i' = 1
  /\ events' = <<>>
  /\ pc' = "idle"
  /\ UNCHANGED <<aux, disk, isUpdating, err, ret, dl, failStep, restoreState, hist0>>

Next ==
  \/ StartBatch
  \/ UpdateNoUpdate
  \/ UpdateStart
  \/ CreateBackupOk
  \/ CreateBackupFail
  \/ DownloadRequestFail
  \/ DownloadBegin
  \/ DownloadData
  \/ DownloadFinish
  \/ DownloadWriteError
  \/ DownloadStreamError
  \/ SwapRemove
  \/ SwapRemoveFail
  \/ SwapMoveOk
  \/ SwapMoveFail
  \/ CommitOk
  \/ CommitFail
  \/ RestoreSkip
  \/ RestoreOk
  \/ RestoreFail
  \/ Record
  \/ BatchFinish
  \/ BatchReturn

Spec == Init /\ [][Next]_vars

\* every awaited operation completes or fails: a step is taken whenever one
\* can be
SpecLive == Init /\ [][Next]_vars /\ WF_vars(Next)

\* ------------------------------------------- a short content-length
\* parseInt(response.headers['content-length'], 10) is what the server
\* declares, which can be less than what the stream delivers: the length
\* of a compressed body that the HTTP client inflates, or a wrong header.
DownloadBeginShort ==
  /\ pc = "download"
  /\ totalSize' = TotalChunks - 1
  /\ downloadedSize' = 0
  /\ temp' = Partial
  /\ pc' = "streaming"
  /\ UNCHANGED <<aux, dir, registry, backupDir, backups, now, batch, i, events,
                 err, ret, failStep, restoreState, hist0>>

NextDownload ==
  \/ Next
  \/ DownloadBeginShort

\* the start-up profile at a time when one more backup can be taken
InitDownload ==
  /\ dir = Installed0
  /\ registry = Installed0
  /\ now = MaxTime
  /\ NoBackups
  /\ UpdateIdle
  /\ CheckIdle
  /\ catalog = <<>>
  /\ CompareIdle

SpecDownload == InitDownload /\ [][NextDownload]_vars

\* ------------------------------------------------------------ the clock
\* Date.now() reads the wall clock, which can be set back between two runs
\* of the program.  The start-up profile after b.jar was updated from
\* version 1 at time MaxTime and the clock was then set back to MaxTime:
\* the backup area holds b.jar.backup.<MaxTime> with the bytes of version 1.
InitClock ==
  /\ dir = Installed0
  /\ registry = Installed0
  /\ now = MaxTime
  /\ backupDir = TRUE
  /\ backups = {[file |-> "b.jar", ts |-> MaxTime, content |-> 1]}
  /\ UpdateIdle
  /\ CheckIdle
  /\ catalog = <<>>
  /\ CompareIdle

SpecClock == InitClock /\ [][Next]_vars

\* ------------------------------------------------------ compareVersions
\* A version string is a sequence of one-character strings.
MaxTokens == 2         \* longest version string, in tokens

Digits == <<"0", "1", "2", "3", "4", "5", "6", "7", "8", "9">>
IsDigit(c) == \E d \in 1..10 : Digits[d] = c
DigitVal(c) == (CHOOSE d \in 1..10 : Digits[d] = c) - 1
IsSep(c) == c \in {".", "-"}

\* the UTF-16 code unit of a character, which orders JavaScript strings
Code(c) ==
  CASE c = "-" -> 45
    [] c = "." -> 46
    [] c = "+" -> 43
    [] IsDigit(c) -> 48 + DigitVal(c)
    [] c = "a" -> 97
    [] c = "b" -> 98

\* v.split(/[.-]/)
RECURSIVE Split(_)
Split(v) ==
  IF \A k \in 1..Len(v) : ~IsSep(v[k])
    THEN <<v>>
    ELSE LET p == CHOOSE k \in 1..Len(v) :
                    IsSep(v[k]) /\ \A j \in 1..(k - 1) : ~IsSep(v[j])
         IN <<SubSeq(v, 1, p - 1)>> \o Split(SubSeq(v, p + 1, Len(v)))

\* the number of leading digits of a token: what parseInt reads
RECURSIVE DigitPrefix(_)
DigitPrefix(t) ==
  IF t = <<>> \/ ~IsDigit(Head(t)) THEN 0 ELSE 1 + DigitPrefix(Tail(t))

\* the value of a sequence of digits
RECURSIVE DigitsVal(_)
DigitsVal(t) ==
  IF t = <<>> THEN 0
  ELSE 10 * DigitsVal(SubSeq(t, 1, Len(t) - 1)) + DigitVal(t[Len(t)])

\* a part is a number or a string
Num(n) == [isNum |-> TRUE, num |-> n, str |-> <<>>]
Str(t) == [isNum |-> FALSE, num |-> 0, str |-> t]

\* const num = parseInt(part); return isNaN(num) ? part : num
ParsePart(t) ==
  IF DigitPrefix(t) = 0 THEN Str(t)
  ELSE Num(DigitsVal(SubSeq(t, 1, DigitPrefix(t))))

parseVersion(v) == [k \in 1..Len(Split(v)) |-> ParsePart(Split(v)[k])]

\* mutant of OrZero: a missing part is the empty string
OrZeroMissingEmpty(parts, k) ==
  IF k > Len(parts) THEN Str(<<>>)
  ELSE IF ~parts[k].isNum /\ parts[k].str = <<>> THEN Num(0)
  ELSE parts[k]

\* parts[i] || 0: a missing part, the number 0 and the empty string give 0
OrZero(parts, k) ==
  IF k > Len(parts) THEN Num(0)
  ELSE IF ~parts[k].isNum /\ parts[k].str = <<>> THEN Num(0)
  ELSE parts[k]

\* String(n) of a number
RECURSIVE DecStr(_)
DecStr(n) ==
  IF n < 10 THEN <<Digits[n + 1]>>
  ELSE DecStr(n \div 10) \o <<Digits[(n % 10) + 1]>>

ToStr(p) == IF p.isNum THEN DecStr(p.num) ELSE p.str

\* s < t on JavaScript strings
RECURSIVE StrLess(_, _)
StrLess(s, t) ==
  IF t = <<>> THEN FALSE
  ELSE IF s = <<>> THEN TRUE
  ELSE IF Head(s) # Head(t) THEN Code(Head(s)) < Code(Head(t))
  ELSE StrLess(Tail(s), Tail(t))

\* mutant of PartCompare: the parts are always compared as strings
PartCompareLexical(curr, lat) ==
  IF StrLess(ToStr(curr), ToStr(lat)) THEN -1
  ELSE IF StrLess(ToStr(lat), ToStr(curr)) THEN 1 ELSE 0

\* mutant of PartCompare: only curr's type is tested; a number compared
\* with a string is neither smaller nor greater
PartCompareCurrOnly(curr, lat) ==
  IF curr.isNum
    THEN IF ~lat.isNum THEN 0
         ELSE IF curr.num < lat.num THEN -1
         ELSE IF curr.num > lat.num THEN 1 ELSE 0
    ELSE IF StrLess(ToStr(curr), ToStr(lat)) THEN -1
         ELSE IF StrLess(ToStr(lat), ToStr(curr)) THEN 1 ELSE 0

\* the body of the loop of compareVersions: -1, 1, or 0 to go on
PartCompare(curr, lat) ==
  IF curr.isNum /\ lat.isNum
    THEN IF curr.num < lat.num THEN -1
         ELSE IF curr.num > lat.num THEN 1 ELSE 0
    ELSE IF StrLess(ToStr(curr), ToStr(lat)) THEN -1
         ELSE IF StrLess(ToStr(lat), ToStr(curr)) THEN 1 ELSE 0

Max(m, n) == IF m > n THEN m ELSE n

RECURSIVE CompareFrom(_, _, _)
CompareFrom(cp, lp, k) ==
  IF k > Max(Len(cp), Len(lp)) THEN 0
  ELSE LET c == PartCompare(OrZero(cp, k), OrZero(lp, k))
       IN IF c # 0 THEN c ELSE CompareFrom(cp, lp, k + 1)

compareVersions(current, latest) ==
  CompareFrom(parseVersion(current), parseVersion(latest), 1)

\* the tokens version strings are made of, and the version strings
Tokens ==
  {<<>>, <<"2">>, <<"1", "0">>, <<"a">>, <<"1", "a">>}

RECURSIVE VersionsOf(_)
VersionsOf(n) ==
  IF n = 1 THEN Tokens
  ELSE VersionsOf(n - 1) \cup
       {v \o <<sep>> \o t : v \in VersionsOf(n - 1), sep \in {".", "-"}, t \in Tokens}

VersionStrings == VersionsOf(MaxTokens)

\* compareVersions applied to a pair of version strings, or to a version
\* string and the same string with a token 0 more
InitCompare ==
  /\ StartupProfile
  /\ NoBackups
  /\ UpdateIdle
  /\ CheckIdle
  /\ catalog = <<>>
  /\ cmp = NoCmp
  /\ vc = <<>>
  /\ \E a \in VersionStrings :
       /\ va = a
       /\ \E b \in VersionStrings \cup {a \o <<".", "0">>} : vb = b

CompareCall ==
  /\ cmp = NoCmp
  /\ cmp' = compareVersions(va, vb)
  /\ UNCHANGED <<va, vb, vc, chk, rw, disk, batch, i, pc, events, err, ret,
                 dl, failStep, restoreState, hist0>>

NextCompare == CompareCall

SpecCompare == InitCompare /\ [][NextCompare]_vars

\* three version strings: any version string, and two strings of one or
\* two tokens, among them a token that is below the digits as a string
ShortTokens == Tokens \cup {<<"+">>}
ShortStrings ==
  ShortTokens \cup {t \o <<".">> \o u : t \in ShortTokens, u \in ShortTokens}

InitTransitive ==
  /\ StartupProfile
  /\ NoBackups
  /\ UpdateIdle
  /\ CheckIdle
  /\ catalog = <<>>
  /\ cmp = NoCmp
  /\ va \in VersionStrings
  /\ vb \in ShortStrings
  /\ vc \in ShortStrings

SpecTransitive == InitTransitive /\ [][NextCompare]_vars

\* ------------------------------------------------------ checkForUpdates
MaxChecks == 2         \* checkForUpdates calls that return

\* what checkForUpdates and the registry handler of the main process leave
\* alone
upd == <<backupDir, backups, temp, now, batch, i, pc, err, ret, dl, failStep,
         restoreState, hist0, rw>>

\* a name in the installation directory that does not end in .jar
OtherFiles == {"notes.txt"}
AllFiles == Files \cup OtherFiles

\* f.endsWith('.jar')
IsJar(f) == f \in Files

\* a registry record that has no projectId; its other fields are not read
NoProjectId == -2

\* the version string of version n: 1.4, 1.8, 1.12, ...
VersionName(n) == <<"1", ".">> \o DecStr(4 * n)

\* error.message of a failed catalog query
CatalogMsg == "catalog failed"

\* the entries of latestVersion.files
PrimaryFile == [primary |-> TRUE, size |-> 5]
SecondaryFile == [primary |-> FALSE, size |-> 3]
FileLists ==
  {<<>>, <<PrimaryFile>>, <<SecondaryFile, PrimaryFile>>, <<SecondaryFile>>}

\* outcomes of api.getLatestVersion: it throws, resolves to null, or
\* resolves to a version
Throws == [kind |-> "throws", version_number |-> 0, files |-> <<>>]
Null == [kind |-> "null", version_number |-> 0, files |-> <<>>]
\* a property an object does not have
Undefined == [kind |-> "undefined", version_number |-> 0, files |-> <<>>]
NoSize == -1
Candidate(v, fl) == [kind |-> "version", version_number |-> v, files |-> fl]

\* what the catalog may answer for the project of file f: anything for
\* a.jar, and for the other files a failure, no version, or the newest
\* version with one primary file
Answers(f) ==
  IF f = "a.jar"
    THEN {Throws, Null} \cup {Candidate(v, fl) : v \in Versions, fl \in FileLists}
    ELSE {Throws, Null, Candidate(MaxVersion, <<PrimaryFile>>)}

\* mutant of Tracked: any registry record will do
TrackedAnyRecord(f) == registry[f] # Absent

\* modInfo && modInfo.projectId
Tracked(f) == registry[f] # Absent /\ registry[f] # NoProjectId

\* files.filter(f => f.endsWith('.jar')) of fs.readdir(modsPath)
jarFiles == {f \in DOMAIN dir : IsJar(f) /\ dir[f] # Absent}

\* the element getInstalledMods pushes for file f
ModInfo(f) ==
  [fileName |-> f, name |-> NameOf(f), currentVersion |-> registry[f],
   projectId |-> f]

\* the orders fs.readdir may list the files of S in
Listings(S) ==
  {l \in [1..Cardinality(S) -> S] : \A j, k \in DOMAIN l : j # k => l[j] # l[k]}

\* the arrays getInstalledMods may resolve to
getInstalledMods ==
  {[k \in DOMAIN l |-> ModInfo(l[k])] : l \in Listings({f \in jarFiles : Tracked(f)})}

\* latestVersion.files[0]?.size || 0
FirstSize(files) == IF files = <<>> THEN 0 ELSE files[1].size

\* latestVersion && compareVersions(mod.currentVersion,
\* latestVersion.version_number) < 0
IsNewer(mod, latestVersion) ==
  /\ latestVersion.kind = "version"
  /\ compareVersions(VersionName(mod.currentVersion),
                     VersionName(latestVersion.version_number)) < 0

\* mutant of UpdateInfo: a candidate that is not older is offered
UpdateInfoNotOlder(mod, latestVersion) ==
  LET newer == /\ latestVersion.kind = "version"
               /\ compareVersions(VersionName(mod.currentVersion),
                                  VersionName(latestVersion.version_number)) <= 0
  IN [fileName |-> mod.fileName, name |-> mod.name,
      currentVersion |-> mod.currentVersion, projectId |-> mod.projectId,
      hasUpdate |-> newer,
      latestVersion |-> IF newer THEN latestVersion ELSE Null,
      canUpdate |-> newer,
      updateSize |-> IF newer THEN FirstSize(latestVersion.files) ELSE NoSize,
      error |-> ""]

\* mutant of UpdateInfo: the report carries the position it was made at
UpdateInfoWithPosition(mod, latestVersion) ==
  LET newer == IsNewer(mod, latestVersion)
  IN [fileName |-> mod.fileName, name |-> mod.name,
      currentVersion |-> mod.currentVersion, projectId |-> mod.projectId,
      hasUpdate |-> newer,
      latestVersion |-> IF newer THEN latestVersion ELSE Null,
      canUpdate |-> newer,
      updateSize |-> IF newer THEN FirstSize(latestVersion.files) ELSE NoSize,
      error |-> "", position |-> ci]

\* updateInfo, as pushed when the catalog query resolved
UpdateInfo(mod, latestVersion) ==
  LET newer == IsNewer(mod, latestVersion)
  IN [fileName |-> mod.fileName, name |-> mod.name,
      currentVersion |-> mod.currentVersion, projectId |-> mod.projectId,
      hasUpdate |-> newer,
      latestVersion |-> IF newer THEN latestVersion ELSE Null,
      canUpdate |-> newer,
      updateSize |-> IF newer THEN FirstSize(latestVersion.files) ELSE NoSize,
      error |-> ""]

\* the report pushed by the catch of the loop; it has no latestVersion,
\* canUpdate or updateSize
ErrorInfo(mod) ==
  [fileName |-> mod.fileName, name |-> mod.name,
   currentVersion |-> mod.currentVersion, projectId |-> mod.projectId,
   hasUpdate |-> FALSE, latestVersion |-> Undefined, canUpdate |-> FALSE,
   updateSize |-> NoSize, error |-> CatalogMsg]

\* the profiles a check is started on: a.jar is installed and tracked,
\* b.jar is installed with or without a record, c.jar is a record without
\* a file, a file without a record, a file whose record has no projectId
\* or a tracked file, and notes.txt is a file with a full record
InitCheck ==
  /\ \E va1 \in Versions, rb \in {Absent} \cup Versions,
        c \in {<<Absent, 2>>, <<1, Absent>>, <<1, NoProjectId>>, <<1, 2>>} :
       /\ dir = [f \in AllFiles |->
                   CASE f = "a.jar" -> va1
                     [] f = "c.jar" -> c[1]
                     [] OTHER -> 1]
       /\ registry = [f \in AllFiles |->
                        CASE f = "a.jar" -> va1
                          [] f = "b.jar" -> rb
                          [] f = "c.jar" -> c[2]
                          [] OTHER -> 1]
  /\ now = 1
  /\ NoBackups
  /\ UpdateIdle
  /\ CheckIdle
  /\ catalog = <<>>
  /\ CompareIdle

\* mutant of CheckStart: the scan drops the records of files that are gone
CheckStartPruning ==
  /\ cpc = "idle"
  /\ Len(returned) < MaxChecks
  /\ \E im \in getInstalledMods :
       /\ installedMods' = im
       /\ events' = <<[type |-> "updateCheckStarted", modCount |-> Len(im)]>>
  /\ ci' = 1
  /\ updateResults' = <<>>
  /\ cpc' = "loop"
  /\ registry' = [f \in DOMAIN registry |->
                    IF dir[f] = Absent THEN Absent ELSE registry[f]]
  /\ UNCHANGED <<catalog, returned, cmpv, dir, upd>>

\* checkForUpdates up to its loop: getInstalledMods resolves, updateResults
\* is created and updateCheckStarted is emitted
CheckStart ==
  /\ cpc = "idle"
  /\ Len(returned) < MaxChecks
  /\ \E im \in getInstalledMods :
       /\ installedMods' = im
       /\ events' = <<[type |-> "updateCheckStarted", modCount |-> Len(im)]>>
  /\ ci' = 1
  /\ updateResults' = <<>>
  /\ cpc' = "loop"
  /\ UNCHANGED <<catalog, returned, cmpv, dir, registry, upd>>

\* getInstalledMods rejects (the registry cannot be read, the directory
\* cannot be listed): checkForUpdates rejects before it emits anything
CheckScanFail ==
  /\ cpc = "idle"
  /\ Len(returned) < MaxChecks
  /\ cpc' = "rejected"
  /\ UNCHANGED <<installedMods, ci, updateResults, events, catalog, returned,
                 cmpv, dir, registry, upd>>

\* mutant of CheckingMod: the position is 0-based
CheckingModZeroBased ==
  /\ cpc = "loop"
  /\ ci <= Len(installedMods)
  /\ Emit([type |-> "checkingMod", mod |-> installedMods[ci].name,
           progress |-> ci - 1, total |-> Len(installedMods)])
  /\ cpc' = "query"
  /\ UNCHANGED <<installedMods, ci, updateResults, catalog, returned, cmpv,
                 dir, registry, upd>>

\* the loop's emit of checkingMod, up to the await of getLatestVersion
CheckingMod ==
  /\ cpc = "loop"
  /\ ci <= Len(installedMods)
  /\ Emit([type |-> "checkingMod", mod |-> installedMods[ci].name,
           progress |-> ci, total |-> Len(installedMods)])
  /\ cpc' = "query"
  /\ UNCHANGED <<installedMods, ci, updateResults, catalog, returned, cmpv,
                 dir, registry, upd>>

\* the catalog's answer for file f: the one it gave before, or a new one
Answer(f, a) ==
  /\ a \in Answers(f)
  /\ f \in DOMAIN catalog => a = catalog[f]
  /\ catalog' = [g \in DOMAIN catalog \cup {f} |-> IF g = f THEN a ELSE catalog[g]]

\* getLatestVersion resolves: updateInfo is pushed
QueryOk ==
  /\ cpc = "query"
  /\ \E a \in Answers(installedMods[ci].fileName) \ {Throws} :
       /\ Answer(installedMods[ci].fileName, a)
       /\ updateResults' = Append(updateResults, UpdateInfo(installedMods[ci], a))
  /\ ci' = ci + 1
  /\ cpc' = "loop"
  /\ UNCHANGED <<installedMods, returned, events, cmpv, dir, registry, upd>>

\* mutant of QueryFail: the failure is not caught in the loop
QueryFailUncaught ==
  /\ cpc = "query"
  /\ Answer(installedMods[ci].fileName, Throws)
  /\ cpc' = "rejected"
  /\ UNCHANGED <<installedMods, ci, updateResults, returned, events, cmpv,
                 dir, registry, upd>>

\* getLatestVersion rejects: the catch pushes a report with the error
QueryFail ==
  /\ cpc = "query"
  /\ Answer(installedMods[ci].fileName, Throws)
  /\ updateResults' = Append(updateResults, ErrorInfo(installedMods[ci]))
  /\ ci' = ci + 1
  /\ cpc' = "loop"
  /\ UNCHANGED <<installedMods, returned, events, cmpv, dir, registry, upd>>

\* the set of elements of a sequence
Range(s) == {s[k] : k \in DOMAIN s}

\* mutant of CheckComplete: every report is counted as an update
CheckCompleteCountAll ==
  /\ cpc = "loop"
  /\ ci > Len(installedMods)
  /\ Emit([type |-> "updateCheckCompleted", results |-> updateResults,
           updatesAvailable |-> Len(updateResults)])
  /\ returned' = Append(returned, [results |-> Range(updateResults),
                                   dir |-> dir, registry |-> registry])
  /\ cpc' = "done"
  /\ UNCHANGED <<installedMods, ci, updateResults, catalog, cmpv, dir,
                 registry, upd>>

\* after the loop: updateCheckCompleted is emitted and updateResults returned
CheckComplete ==
  /\ cpc = "loop"
  /\ ci > Len(installedMods)
  /\ Emit([type |-> "updateCheckCompleted", results |-> updateResults,
           updatesAvailable |->
             Cardinality({k \in DOMAIN updateResults : updateResults[k].hasUpdate})])
  /\ returned' = Append(returned, [results |-> Range(updateResults),
                                   dir |-> dir, registry |-> registry])
  /\ cpc' = "done"
  /\ UNCHANGED <<installedMods, ci, updateResults, catalog, cmpv, dir,
                 registry, upd>>

\* the 'check-for-updates' handler hands the outcome of the call to the
\* renderer; the locals of the call are gone
CheckReturn ==
  /\ cpc \in {"done", "rejected"}
  /\ cpc' = "idle"
  /\ installedMods' = <<>>
  /\ ci' = 1
  /\ updateResults' = <<>>
  /\ events' = <<>>
  /\ UNCHANGED <<catalog, returned, cmpv, dir, registry, upd>>

\* the 'update-mod-registry' handler, between two checks: the record of
\* a.jar is replaced by the record of the next version
RegisterMod ==
  /\ cpc = "idle"
  /\ registry["a.jar"] < MaxVersion
  /\ registry' = [registry EXCEPT !["a.jar"] = @ + 1]
  /\ UNCHANGED <<chk, events, cmpv, dir, upd>>

NextCheck ==
  \/ CheckStart
  \/ CheckScanFail
  \/ CheckingMod
  \/ QueryOk
  \/ QueryFail
  \/ CheckComplete
  \/ CheckReturn
  \/ RegisterMod

SpecCheck == InitCheck /\ [][NextCheck]_vars

\* ------------------------------------------- checks and updates together
\* Neither handler of the main process waits for a running call: calls of
\* checkForUpdates and of updateMultipleMods take their steps in any order.
\* The start-up profile, at a time when one more backup can be taken and
\* all checks but one have returned; the catalog had no version for a.jar
\* and failed for b.jar.
Catalog0 == [f \in {"a.jar", "b.jar"} |-> IF f = "a.jar" THEN Null ELSE Throws]
Returned0 ==
  [k \in 1..(MaxChecks - 1) |->
     [results |-> {UpdateInfo([fileName |-> "a.jar", name |-> NameOf("a.jar"),
                               currentVersion |-> Installed0["a.jar"],
                               projectId |-> "a.jar"], Null),
                   ErrorInfo([fileName |-> "b.jar", name |-> NameOf("b.jar"),
                              currentVersion |-> Installed0["b.jar"],
                              projectId |-> "b.jar"])},
      dir |-> Installed0, registry |-> Installed0]]

InitOverlap ==
  /\ dir = Installed0
  /\ registry = Installed0
  /\ now = MaxTime
  /\ NoBackups
  /\ UpdateIdle
  /\ cpc = "idle"
  /\ installedMods = <<>>
  /\ ci = 1
  /\ updateResults = <<>>
  /\ returned = Returned0
  /\ catalog = Catalog0
  /\ CompareIdle

NextOverlap ==
  \/ Next
  \/ CheckStart
  \/ CheckScanFail
  \/ CheckingMod
  \/ QueryOk
  \/ QueryFail
  \/ CheckComplete
  \/ CheckReturn

SpecOverlap == InitOverlap /\ [][NextOverlap]_vars

\* ------------------------------------- the other handlers of the main process
\* While an update runs, the main process also serves 'download-mod' and
\* 'delete-mod'.  updateModRegistry and updateDownloadedModRegistry each read
\* the registry file, change the object they read and write it back, and
\* await in between, so their steps interleave.  (In Spec nothing else
\* writes the registry, and the commit is one step.)

\* the mod a 'download-mod' call installs: fileName and
\* versionData.version_number
ModData == [fileName |-> "c.jar", version |-> 1]

\* updateModRegistry: loadModRegistry has resolved
CommitLoad ==
  /\ pc = "commit"
  /\ loaded' = registry
  /\ pc' = "write"
  /\ UNCHANGED <<chk, cmpv, hpc, hreg, disk, batch, i, events, err, ret, dl,
                 failStep, restoreState, hist0>>

\* updateModRegistry: the object that was read is changed and written, then
\* updateMod emits updateCompleted and returns
CommitWrite ==
  /\ pc = "write"
  /\ registry' = updateModRegistry(loaded, Mod.fileName, DownloadFile(Mod),
                                   Mod.latestVersion.version_number)
  /\ loaded' = NoRegistry
  /\ Emit([type |-> "updateCompleted", mod |-> Mod.name,
           oldVersion |-> Mod.currentVersion,
           newVersion |-> Mod.latestVersion.version_number])
  /\ ret' = [success |-> TRUE, oldFile |-> Mod.fileName,
             newFile |-> DownloadFile(Mod),
             newVersion |-> Mod.latestVersion.version_number]
  /\ pc' = "returned"
  /\ UNCHANGED <<chk, cmpv, hpc, hreg, dir, backupDir, backups, temp, now,
                 batch, i, err, dl, failStep, restoreState, hist0>>

\* writeJson throws
CommitWriteFail ==
  /\ pc = "write"
  /\ loaded' = NoRegistry
  /\ Catch("commit", CommitMsg)
  /\ UNCHANGED <<chk, cmpv, hpc, hreg, disk, batch, i, ret, dl, restoreState,
                 hist0>>

\* 'download-mod': the file does not exist, the download is written to it,
\* and updateDownloadedModRegistry is called without being awaited
DownloadMod ==
  /\ hpc = "idle"
  /\ dir[ModData.fileName] = Absent
  /\ dir' = [dir EXCEPT ![ModData.fileName] = ModData.version]
  /\ hpc' = "load"
  /\ UNCHANGED <<chk, cmpv, loaded, hreg, registry, backupDir, backups, temp,
                 now, batch, i, pc, events, err, ret, dl, failStep,
                 restoreState, hist0>>

\* 'download-mod': the write stream fails; the handler resolves with the
\* error and leaves the incomplete file
DownloadModWriteError ==
  /\ hpc = "idle"
  /\ dir[ModData.fileName] = Absent
  /\ dir' = [dir EXCEPT ![ModData.fileName] = Partial]
  /\ UNCHANGED <<chk, cmpv, rw, registry, backupDir, backups, temp, now, batch,
                 i, pc, events, err, ret, dl, failStep, restoreState, hist0>>

\* updateDownloadedModRegistry: readJson has resolved
RegisterLoad ==
  /\ hpc = "load"
  /\ hreg' = registry
  /\ hpc' = "write"
  /\ UNCHANGED <<chk, cmpv, loaded, disk, batch, i, pc, events, err, ret, dl,
                 failStep, restoreState, hist0>>

\* updateDownloadedModRegistry: registry[fileName] is set in the object
\* that was read, and the object is written
RegisterWrite ==
  /\ hpc = "write"
  /\ registry' = [hreg EXCEPT ![ModData.fileName] = ModData.version]
  /\ hreg' = NoRegistry
  /\ hpc' = "idle"
  /\ UNCHANGED <<chk, cmpv, loaded, dir, backupDir, backups, temp, now, batch,
                 i, pc, events, err, ret, dl, failStep, restoreState, hist0>>

\* updateDownloadedModRegistry: readJson or writeJson throws; the catch
\* logs the error
RegisterFail ==
  /\ hpc \in {"load", "write"}
  /\ hreg' = NoRegistry
  /\ hpc' = "idle"
  /\ UNCHANGED <<chk, cmpv, loaded, disk, batch, i, pc, events, err, ret, dl,
                 failStep, restoreState, hist0>>

\* 'delete-mod': fs.remove(modPath), for the path of the downloaded mod
DeleteMod ==
  /\ dir[ModData.fileName] # Absent
  /\ dir' = [dir EXCEPT ![ModData.fileName] = Absent]
  /\ UNCHANGED <<chk, cmpv, rw, registry, backupDir, backups, temp, now, batch,
                 i, pc, events, err, ret, dl, failStep, restoreState, hist0>>

NextHandlers ==
  \/ StartBatch
  \/ UpdateNoUpdate
  \/ UpdateStart
  \/ CreateBackupOk
  \/ CreateBackupFail
  \/ DownloadRequestFail
  \/ DownloadBegin
  \/ DownloadData
  \/ DownloadFinish
  \/ DownloadWriteError
  \/ DownloadStreamError
  \/ SwapRemove
  \/ SwapRemoveFail
  \/ SwapMoveOk
  \/ SwapMoveFail
  \/ CommitLoad
  \/ CommitWrite
  \/ CommitWriteFail
  \/ CommitFail
  \/ RestoreSkip
  \/ RestoreOk
  \/ RestoreFail
  \/ Record
  \/ BatchFinish
  \/ BatchReturn
  \/ DownloadMod
  \/ DownloadModWriteError
  \/ RegisterLoad
  \/ RegisterWrite
  \/ RegisterFail
  \/ DeleteMod

SpecHandlers == InitDownload /\ [][NextHandlers]_vars

\* ------------------------------------------------------------ claims
Count(type) == Cardinality({k \in 1..Len(events) : events[k].type = type})

Outcomes == Count("updateCompleted") + Count("updateFailed")

\* an updateMod invocation is between its first await and its return
InUpdate ==
  pc \in {"backup", "download", "streaming", "remove", "move", "commit",
          "restore", "hung"}

C2_SuccessInstallsNewFile ==
  (pc = "returned" /\ ret.success) =>
    /\ registry[ret.newFile] = ret.newVersion
    /\ dir[ret.newFile] = ret.newVersion
    /\ ret.newFile = DownloadFile(Mod)
    /\ ret.newVersion = Mod.latestVersion.version_number
    /\ ret.oldFile # ret.newFile =>
         (registry[ret.oldFile] = Absent /\ dir[ret.oldFile] = Absent)

\* a successful update that renamed the file
C2_Witness ==
  /\ pc = "returned"
  /\ ret.success
  /\ ret.oldFile # ret.newFile

\* C3: when the download, swap or commit step fails and the restore from
\* backup fails too, the error that leaves update is the step's error.
C3_OriginalErrorSurfaces ==
  (pc = "returned" /\ failStep \in {"download", "swap", "commit"}
     /\ restoreState = "failed") =>
    ret.error = err

\* C4: updateFailed is emitted only after the rollback attempt has
\* completed.
C4_FailedAfterRollback ==
  Count("updateFailed") > 0 => restoreState # "none"

\* C5 as claimed: every invocation of update, a failed precondition
\* included, has emitted exactly one of updateCompleted and updateFailed
\* when it returns.
C5_ExactlyOneOutcomeEvent ==
  pc = "returned" => Outcomes = 1

\* C5: an invocation of update never emits more than one of updateCompleted
\* and updateFailed; when it returns it has emitted exactly one of them if
\* it passed the precondition (updateCompleted exactly when it succeeded)
\* and none if the precondition failed.
C5_ExactlyOneOnceStarted ==
  /\ Outcomes <= 1
  /\ pc = "returned" =>
       /\ Outcomes = (IF started THEN 1 ELSE 0)
       /\ Count("updateCompleted") = (IF ret.success THEN 1 ELSE 0)

\* an invocation whose commit failed and whose rollback failed has returned
C5_Witness ==
  /\ pc = "returned"
  /\ started
  /\ failStep = "commit"
  /\ restoreState = "failed"

\* C6: when the backup step fails, the installation directory and the
\* registry are what they were when update was called, whatever the backup
\* area held.
C6_BackupFailureNoSideEffects ==
  (pc = "returned" /\ failStep = "backup") =>
    (dir = dir0 /\ registry = reg0)

\* C7: update called with latestVersion null fails with 'No update
\* available' and has emitted no event, created no backup or temporary file
\* and changed no file and no registry entry.
C7_NoUpdateNoSideEffects ==
  (pc = "returned" /\ Mod.latestVersion = NoVersion) =>
    /\ ~ret.success
    /\ ret.error = NoUpdateMsg
    /\ \A k \in 1..Len(events) : events[k].type = "batchUpdateProgress"
    /\ dir = dir0
    /\ registry = reg0
    /\ backups = backups0
    /\ temp = Absent

\* update was called with latestVersion null, in a profile that already
\* holds a backup
C7_Witness ==
  /\ pc = "returned"
  /\ Mod.latestVersion = NoVersion
  /\ backups # {}

\* C8: the results of updateMultipleMods follow its input: the k-th
\* result carries the k-th report's name, and when the call has returned
\* there are as many results as reports.
C8_ResultsFollowInput ==
  /\ Len(results) <= Len(mods)
  /\ \A k \in 1..Len(results) : results[k].mod = mods[k].name
  /\ pc = "done" => Len(results) = Len(mods)

\* a call with two reports has returned, the first failed and the second
\* succeeded
C8_Witness ==
  /\ pc = "done"
  /\ Len(mods) = 2
  /\ ~results[1].success
  /\ results[2].success

\* C9: the loop records the outcome of each update as it is (success, and
\* the error message of a failure), goes on to the next item after a
\* failure as after a success, and ends only after the last item.
C9_FailureDoesNotStopBatch ==
  [][/\ (pc = "returned" /\ pc' # "returned") =>
          /\ results' = Append(results,
               IF ret.success
                 THEN [mod |-> Mod.name, success |-> TRUE,
                       oldFile |-> ret.oldFile, newFile |-> ret.newFile,
                       newVersion |-> ret.newVersion]
                 ELSE [mod |-> Mod.name, success |-> FALSE,
                       error |-> ret.error])
          /\ i' = i + 1
          /\ mods' = mods
          /\ pc' = "loop"
     /\ (pc = "loop" /\ i <= Len(mods)) =>
          pc' \in {"loop", "backup", "returned"}]_vars

\* the second item is being updated after the first one failed
C9_Witness ==
  /\ pc = "backup"
  /\ i = 2
  /\ ~results[1].success
  /\ results[1].error = DownloadMsg

\* C10: while the update of item i is running or has returned without
\* being recorded, the results of all earlier items and of no other are
\* recorded, and every event emitted since the last result concerns item i.
C10_Sequential ==
  (InUpdate \/ pc = "returned") =>
    /\ i <= Len(mods)
    /\ Len(results) = i - 1
    /\ \A k \in 1..Len(events) :
         events[k].type # "batchUpdateProgress" => events[k].mod = Mod.name
    /\ events[1] = BatchProgress

\* the second item's download is streaming
C10_Witness ==
  /\ pc = "streaming"
  /\ i = 2
  /\ downloadedSize > 0

\* the events at positions before k
Before(k) == {events[j].type : j \in 1..(k - 1)}

\* C11: the events of one update come in the order updateStarted, then
\* downloading events, then one of updateCompleted and updateFailed:
\* updateStarted follows no event of the update, a downloading event
\* follows updateStarted and no outcome event, and an outcome event follows
\* updateStarted and no other outcome event.
C11_EventOrder ==
  \A k \in 1..Len(events) :
    /\ events[k].type = "updateStarted" =>
         Before(k) \subseteq {"batchUpdateProgress"}
    /\ events[k].type = "downloading" =>
         /\ "updateStarted" \in Before(k)
         /\ Before(k) \cap {"updateCompleted", "updateFailed"} = {}
         /\ events[k].mod = events[2].mod
    /\ events[k].type \in {"updateCompleted", "updateFailed"} =>
         /\ "updateStarted" \in Before(k)
         /\ Before(k) \cap {"updateCompleted", "updateFailed"} = {}
         /\ events[k].mod = events[2].mod

\* an update failed at its write stream after a chunk had been reported
C11_Witness ==
  /\ pc = "restore"
  /\ failStep = "download"
  /\ Count("downloading") > 0
  /\ events[Len(events)].type = "updateFailed"

\* C12: while item i is updated, the one batchUpdateProgress event emitted
\* for it came first and carries the 1-based position, the input length and
\* the item's name; batchUpdateCompleted is emitted once, when every item
\* has its result and before the call returns, and carries all results.
C12_BatchEvents ==
  /\ (InUpdate \/ pc = "returned") =>
       /\ events[1] = [type |-> "batchUpdateProgress",
                       current |-> Len(results) + 1, total |-> Len(mods),
                       modName |-> mods[Len(results) + 1].name]
       /\ Count("batchUpdateProgress") = 1
  /\ Count("batchUpdateCompleted") > 0 => pc = "done"
  /\ pc = "done" =>
       /\ events = <<[type |-> "batchUpdateCompleted", results |-> results]>>
       /\ Len(results) = Len(mods)

\* a call with two reports has emitted batchUpdateCompleted
C12_Witness ==
  /\ pc = "done"
  /\ Len(mods) = 2
  /\ Count("batchUpdateCompleted") = 1

\* the checkForUpdates call has passed getInstalledMods and not returned
InCheck == cpc \in {"loop", "query", "done"}

\* C13: a catalog failure for an artifact gives that artifact a report with
\* a non-empty error and hasUpdate = FALSE, and does not end the check: the
\* call is not rejected once it has emitted an event, and when it completes
\* there is exactly one report for each installed artifact, in the same
\* positions, whichever queries failed.
C13_CatalogFailureCaptured ==
  /\ \A k \in DOMAIN updateResults :
       catalog[installedMods[k].fileName] = Throws =>
         /\ updateResults[k].error = CatalogMsg
         /\ updateResults[k].hasUpdate = FALSE
  /\ cpc = "rejected" => events = <<>>
  /\ cpc = "done" =>
       /\ Len(updateResults) = Len(installedMods)
       /\ \A k \in DOMAIN installedMods :
            updateResults[k].fileName = installedMods[k].fileName

\* a check completed although its first query failed, with a report for
\* the artifact checked after it
C13_Witness ==
  /\ cpc = "done"
  /\ Len(updateResults) >= 2
  /\ updateResults[1].error = CatalogMsg
  /\ updateResults[2].error = ""

\* C14: a report has hasUpdate = TRUE exactly when the catalog answered
\* with a version that compareVersions puts after the artifact's
\* currentVersion; then latestVersion is that answer and the version is
\* strictly newer, and a report for an equal or older version has
\* hasUpdate = FALSE and latestVersion null.
C14_HasUpdateIffNewer ==
  \A k \in DOMAIN updateResults :
    LET r == updateResults[k]
        a == catalog[r.fileName]
    IN /\ r.hasUpdate <=>
            /\ a.kind = "version"
            /\ compareVersions(VersionName(r.currentVersion),
                               VersionName(a.version_number)) < 0
       /\ r.hasUpdate =>
            /\ r.latestVersion = a
            /\ a.version_number > r.currentVersion
       /\ (a.kind = "version" /\ a.version_number <= r.currentVersion) =>
            /\ r.hasUpdate = FALSE
            /\ r.latestVersion = Null

\* one report offers an update and another, for which the catalog answered
\* with a version that is not newer, does not
C14_Witness ==
  \E j, k \in DOMAIN updateResults :
    /\ updateResults[j].hasUpdate
    /\ ~updateResults[k].hasUpdate
    /\ catalog[updateResults[k].fileName].kind = "version"

\* C15: a report with hasUpdate = TRUE has as update size the size of the
\* file marked primary in its latestVersion's file list, or 0 if the list
\* has no such file.
C15_SizeOfPrimaryFile ==
  \A k \in DOMAIN updateResults :
    LET r == updateResults[k]
        fl == r.latestVersion.files
        P == {j \in DOMAIN fl : fl[j].primary}
    IN r.hasUpdate =>
         r.updateSize = IF P = {} THEN 0
                        ELSE fl[CHOOSE j \in P : \A h \in P : j <= h].size

C17_EachOnceInOrder ==
  InCheck =>
    LET n == Len(installedMods)
        reached == IF cpc = "query" THEN ci ELSE ci - 1
    IN /\ events[1] = [type |-> "updateCheckStarted", modCount |-> n]
       /\ Count("updateCheckStarted") = 1
       /\ \A j, k \in 1..n :
            j # k => installedMods[j].fileName # installedMods[k].fileName
       /\ Count("checkingMod") = reached
       /\ reached <= n
       /\ \A k \in 1..reached :
            events[k + 1] = [type |-> "checkingMod", mod |-> installedMods[k].name,
                             progress |-> k, total |-> n]
       /\ Len(updateResults) = ci - 1
       /\ \A k \in 1..(ci - 1) :
            updateResults[k].fileName = installedMods[k].fileName
       /\ cpc = "done" => reached = n

\* a check of two artifacts completed, b.jar having been listed first
C17_Witness ==
  /\ cpc = "done"
  /\ Len(installedMods) >= 2
  /\ installedMods[1].fileName = "b.jar"
  /\ Count("checkingMod") = Len(installedMods)

\* C18: the artifacts of a check are exactly the files of the installation
\* directory that end in .jar and have a registry record with a projectId;
\* every report is for such a file and the catalog is queried for such
\* files only.
C18_TrackableOnly ==
  LET Included(f) == /\ dir[f] # Absent
                     /\ IsJar(f)
                     /\ registry[f] # Absent
                     /\ registry[f] # NoProjectId
  IN /\ InCheck =>
          \A f \in AllFiles :
            Included(f) <=> \E k \in DOMAIN installedMods : installedMods[k].fileName = f
     /\ \A k \in DOMAIN updateResults : Included(updateResults[k].fileName)
     /\ \A f \in DOMAIN catalog : Included(f)

\* a check completed on a profile that has a .jar file whose record has no
\* projectId and a recorded file that is not a .jar file
C18_Witness ==
  /\ cpc = "done"
  /\ dir["c.jar"] # Absent
  /\ registry["c.jar"] = NoProjectId
  /\ dir["notes.txt"] # Absent
  /\ registry["notes.txt"] # Absent
  /\ Len(updateResults) = 2

\* C19: two checks made on the same installation directory and registry,
\* to which the catalog gave the same answers, returned the same set of
\* reports.
C19_Idempotent ==
  \A j, k \in DOMAIN returned :
    (returned[j].dir = returned[k].dir /\ returned[j].registry = returned[k].registry)
      => returned[j].results = returned[k].results

\* two checks returned two reports each, one of them an update, with no
\* change of the registry between them
C19_Witness ==
  /\ Len(returned) = 2
  /\ returned[1].registry = returned[2].registry
  /\ Cardinality(returned[2].results) = 2
  /\ \E r \in returned[2].results : r.hasUpdate

\* C24: no step of an update is taken while a checkForUpdates call is in
\* progress and no step of a check while an update is in progress, and
\* isUpdating is TRUE exactly while an updateMultipleMods call is in
\* progress.
C24_StrictlySequential ==
  /\ ~(InUpdate /\ cpc \in {"loop", "query"})
  /\ isUpdating <=> pc \notin {"idle", "done"}

\* C25: when update returns after a failure of its swap or commit step and
\* a rollback that restored the file, the installation directory holds what
\* it held when update was called (the original file with its bytes, no
\* file of the new version) and so does the registry.
C25_SwapCommitFailureKeepsDisk ==
  (pc = "returned" /\ failStep \in {"swap", "commit"} /\ restoreState = "ok") =>
    (dir = dir0 /\ registry = reg0)

\* C26: while an update runs with the original file removed or replaced, a
\* backup of the file taken by this invocation holds the bytes the file had
\* when update was called, and the complete download is in the temporary
\* file or has been moved to the new name.
C26_RemovedOnlyAfterBackupAndDownload ==
  (InUpdate /\ dir[Mod.fileName] # dir0[Mod.fileName]) =>
    /\ \E b \in backups \ backups0 :
         /\ b.file = Mod.fileName
         /\ b.content = dir0[Mod.fileName]
    /\ \/ temp = Mod.latestVersion.version_number
       \/ dir[DownloadFile(Mod)] = Mod.latestVersion.version_number

\* the original file has been removed and the new one is not yet moved in
C26_Witness ==
  /\ pc = "move"
  /\ dir[Mod.fileName] = Absent
  /\ dir0[Mod.fileName] # Absent
  /\ temp = Mod.latestVersion.version_number

\* C27: a download whose stream fails is a failed download step: the
\* stream is left either with the complete file, for the swap, or for the
\* catch with a download failure; and no incomplete file is ever in the
\* installation directory or recorded in the registry.
C27_StreamErrorIsDownloadFailure ==
  [][/\ (pc = "streaming" /\ pc' # "streaming") =>
          \/ pc' = "remove" /\ temp' = Mod.latestVersion.version_number
          \/ pc' = "restore" /\ failStep' = "download"
     /\ \A f \in Files : dir'[f] # Partial /\ registry'[f] # Partial]_vars

\* C28: an update that has emitted updateStarted eventually emits
\* updateCompleted or updateFailed, and a running updateMultipleMods call
\* eventually emits batchUpdateCompleted and returns.
C28_UpdateTerminates ==
  /\ (pc = "backup") ~> (Outcomes = 1)
  /\ (pc = "loop") ~> (pc = "idle")

\* C29: when the rollback has restored the file, the backup it copied was
\* taken by this invocation and holds the bytes the file had when update
\* was called.
C29_RestoresOwnBackup ==
  (pc = "returned" /\ restoreState = "ok") =>
    /\ LatestBackup(backups, Mod.fileName) \notin backups0
    /\ LatestBackup(backups, Mod.fileName).content = dir0[Mod.fileName]
    /\ LatestBackup(backups, Mod.fileName).file = Mod.fileName

\* C30: while an update that renames its file runs and when it has
\* returned, the registry either has the old key and the new key as they
\* were when update was called, or has no old key and the new key with the
\* new version: never neither key, never both.
C30_CommitIsOneWrite ==
  ((InUpdate \/ pc = "returned") /\ started /\ Mod.fileName # DownloadFile(Mod)) =>
    \/ /\ registry[Mod.fileName] = reg0[Mod.fileName]
       /\ registry[DownloadFile(Mod)] = reg0[DownloadFile(Mod)]
    \/ /\ registry[Mod.fileName] = Absent
       /\ registry[DownloadFile(Mod)] = Mod.latestVersion.version_number

\* the commit of an update that renames its file has been made
C30_Witness ==
  /\ pc = "returned"
  /\ ret.success
  /\ Mod.fileName # DownloadFile(Mod)
  /\ registry # reg0
  /\ reg0[DownloadFile(Mod)] = Absent

\* what is left of the claims about compareVersions: the tokens of a
\* version string, whether a token is all digits, and the first position
\* at which two strings have different tokens
IsNumeric(t) == t # <<>> /\ \A k \in DOMAIN t : IsDigit(t[k])
Sign(n) == IF n < 0 THEN -1 ELSE IF n > 0 THEN 1 ELSE 0
FirstDiff(a, b) ==
  LET D == {k \in 1..Len(Split(a)) : k <= Len(Split(b)) /\ Split(a)[k] # Split(b)[k]
                                     /\ \A j \in 1..(k - 1) : Split(a)[j] = Split(b)[j]}
  IN IF D = {} THEN 0 ELSE CHOOSE k \in D : TRUE

\* C21: when the first position at which va and vb have different tokens
\* holds two numeric tokens, compareVersions(va, vb) is the sign of the
\* difference of their values, not of their order as strings; and
\* compareVersions("1.2.0", "1.10.0") is -1.
C21_NumericTokensByValue ==
  /\ compareVersions(<<"1", ".", "2", ".", "0">>,
                     <<"1", ".", "1", "0", ".", "0">>) = -1
  /\ cmp # NoCmp =>
       LET k == FirstDiff(va, vb)
       IN (k # 0 /\ IsNumeric(Split(va)[k]) /\ IsNumeric(Split(vb)[k])) =>
            cmp = Sign(DigitsVal(Split(va)[k]) - DigitsVal(Split(vb)[k]))

\* tokens 2 and 10 were compared: 2 is the smaller, "2" the greater string
C21_Witness ==
  /\ cmp = -1
  /\ FirstDiff(va, vb) = Len(Split(va))
  /\ Split(va)[Len(Split(va))] = <<"2">>
  /\ Split(vb)[Len(Split(va))] = <<"1", "0">>

\* C22: a version string and the same string with a token 0 more compare
\* equal, in both orders: compareVersions(v, v + ".0") = 0.
C22_TrailingZeroEqual ==
  /\ compareVersions(<<"1", ".", "0">>, <<"1", ".", "0", ".", "0">>) = 0
  /\ cmp # NoCmp =>
       /\ compareVersions(va, va \o <<".", "0">>) = 0
       /\ compareVersions(va \o <<".", "0">>, va) = 0
       /\ vb = va \o <<".", "0">> => cmp = 0

\* a version string of two tokens was compared with its extension by .0
C22_Witness ==
  /\ cmp = 0
  /\ Len(Split(va)) = 2
  /\ vb = va \o <<".", "0">>

\* C23: when the first position at which va and vb have different tokens
\* holds a token that is not all digits, compareVersions(va, vb) is the
\* sign of the order of the two tokens as strings.
C23_NonNumericTokensLexical ==
  cmp # NoCmp =>
    LET k == FirstDiff(va, vb)
    IN (k # 0 /\ ~(IsNumeric(Split(va)[k]) /\ IsNumeric(Split(vb)[k]))) =>
         cmp = IF StrLess(Split(va)[k], Split(vb)[k]) THEN -1 ELSE 1

\* C20: compareVersions is reflexive and antisymmetric: once
\* compareVersions(va, vb) has been computed, it is the negation of
\* compareVersions(vb, va), and each of va and vb compares equal to
\* itself, whatever mix of numeric and non-numeric tokens and whatever
\* numbers of tokens the two strings have.
C20_ReflexiveAntisymmetric ==
  cmp # NoCmp =>
    /\ cmp = -compareVersions(vb, va)
    /\ compareVersions(va, va) = 0
    /\ compareVersions(vb, vb) = 0
    /\ va = vb => cmp = 0

\* a non-numeric token was compared with a numeric one, in strings with
\* different numbers of tokens, and the strings were found different
C20_Witness ==
  /\ cmp = 1
  /\ Len(parseVersion(va)) < Len(parseVersion(vb))
  /\ ~parseVersion(va)[1].isNum
  /\ parseVersion(vb)[1].isNum

\* C36: no step of a checkForUpdates call, from its scan of the directory
\* to its return or rejection, changes the installation directory, the
\* registry, the backup area or the temporary file, whatever the catalog
\* answers or fails with.
C36_CheckChangesNothingOnDisk ==
  [][(cpc # "idle" \/ cpc' # "idle") =>
       UNCHANGED <<dir, registry, backupDir, backups, temp>>]_vars

\* a check has gone through a profile with a record whose file is gone,
\* and got a failure and a newer version from the catalog
C36_Witness ==
  /\ cpc = "done"
  /\ \E f \in DOMAIN registry : registry[f] # Absent /\ dir[f] = Absent
  /\ \E k \in DOMAIN updateResults : updateResults[k].error = CatalogMsg
  /\ \E k \in DOMAIN updateResults : updateResults[k].hasUpdate

\* C37: while an update of one artifact runs and when it has returned,
\* successful or failed, every other file that was installed when it was
\* called holds the bytes it held then and has the registry entry it had
\* then, also when the new file name is the name of such a file.
C37_OtherArtifactsUntouched ==
  ((InUpdate \/ pc = "returned") /\ started) =>
    \A f \in Files \ {Mod.fileName} :
      dir0[f] # Absent => (dir[f] = dir0[f] /\ registry[f] = reg0[f])

\* an update whose new file name is the name of another installed file has
\* returned, its own file restored
C37_Witness ==
  /\ pc = "returned"
  /\ started
  /\ DownloadFile(Mod) # Mod.fileName
  /\ dir0[DownloadFile(Mod)] # Absent
  /\ failStep = "swap"
  /\ restoreState = "ok"
  /\ dir[Mod.fileName] = dir0[Mod.fileName]

\* C38: whenever no update is in progress, every registry entry names a
\* file that is in the installation directory and holds the version the
\* entry records.
C38_RegistryMatchesDirectory ==
  pc \in {"idle", "returned"} =>
    \A f \in Files : registry[f] # Absent => dir[f] = registry[f]

\* C33: every downloading event emitted by the running download carries a
\* progress between 0 and 100 that is not less than the progress of the
\* events before it, and 0 when the length of the download is unknown.
C33_ProgressWithinRange ==
  \A k \in DOMAIN events :
    events[k].type = "downloading" =>
      /\ events[k].progress \in 0..100
      /\ \A j \in 1..(k - 1) :
           events[j].type = "downloading" => events[j].progress <= events[k].progress
      /\ (pc = "streaming" /\ totalSize = 0) => events[k].progress = 0

\* the names of the backups in bs: file name and timestamp suffix
BackupNames(bs) == {<<b.file, b.ts>> : b \in bs}

\* C34: a backup step that succeeds takes its backup under a name whose
\* timestamp suffix is greater than that of every existing backup of the
\* file, and every backup that existed is still there with its bytes.
C34_BackupNameIsNew ==
  [][(pc = "backup" /\ pc' = "download") =>
       /\ \A b \in ModBackups(backups, Mod.fileName) : b.ts < now
       /\ backups \subseteq backups']_vars

C39_Transitive ==
  cmp # NoCmp =>
    LET bc == compareVersions(vb, vc)
        ac == compareVersions(va, vc)
    IN /\ (cmp <= 0 /\ bc <= 0) => ac <= 0
       /\ (cmp = 0 /\ bc = 0) => ac = 0

\* three different strings in ascending order: a number, a greater number
\* that is the smaller string, and a token that is not a number
C39_Witness ==
  /\ cmp = -1
  /\ parseVersion(va) = <<Num(2)>>
  /\ parseVersion(vb) = <<Num(10)>>
  /\ parseVersion(vc) = <<Str(<<"a">>)>>

\* C31: no registry write loses what another write has put there: a step
\* changes the registry only as the commit of the running update, and then
\* only the keys of the old and the new file name, or as the registration
\* of the downloaded mod, and then only the key of its file name.
C31_RegistryWritesNotLost ==
  [][\A f \in Files :
       registry'[f] # registry[f] =>
         \/ /\ pc = "write"
            /\ pc' = "returned"
            /\ f \in {Mod.fileName, DownloadFile(Mod)}
         \/ /\ hpc = "write"
            /\ hpc' = "idle"
            /\ f = ModData.fileName]_vars

\* C32: a 'delete-mod' step that removes a file leaves no registry entry
\* for its name (a step that removes a file while no update and no
\* download moves on is a 'delete-mod' step).
C32_EntryDeletedWithFile ==
  [][\A f \in Files :
       (dir[f] # Absent /\ dir'[f] = Absent /\ pc' = pc /\ hpc' = hpc) =>
         registry'[f] = Absent]_vars

TypeOK ==
  /\ dir \in [Files -> {Absent, Partial} \cup Versions]
  /\ registry \in [Files -> {Absent} \cup Versions]
  /\ pc \in {"idle", "loop", "backup", "download", "streaming", "remove",
             "move", "commit", "write", "restore", "returned", "hung", "done"}
  /\ isUpdating \in BOOLEAN

====
